---- MODULE Spec2Model ----
(***************************************************************************)
(* Study-Assistant frontend: App and its pages (Home, Documents, Chat),    *)
(* the document uploader and viewer, the timers of the components, the     *)
(* api services with the AuthProvider, and the text utilities of           *)
(* utils/fileHandlers.js.                                                  *)
(*                                                                         *)
(* The specifications share the variables below:                           *)
(*   Spec          the Documents page: upload batches and their timers;    *)
(*   ChatSpec      one mounted instance of the Chat page (FairChatSpec     *)
(*                 adds the timer fairness of the browser's event loop);   *)
(*   AppSpec       navigation between the pages, uploads and selections;   *)
(*   ChunkSpec     one call of chunkText;                                  *)
(*   PdfSpec       one call of extractPdfText;                             *)
(*   TimerSpec     the setTimeout timers of the components (FairTimerSpec  *)
(*                 adds the fairness of the event loop);                   *)
(*   ApiSpec       the api instance, its services and the AuthProvider     *)
(*                 (FairApiSpec adds the answer to the profile request);   *)
(*   SummarySpec   one call of generateSummary;                            *)
(*   PassagesSpec  one call of findRelevantPassages.                       *)
(* A specification leaves the variables of the others at their initial     *)
(* values.                                                                 *)
(***************************************************************************)
EXTENDS Integers, Sequences, FiniteSets, TLC

VARIABLES
  now,             \* Date.now(): the wall clock in milliseconds
  documents,       \* App.jsx: const [documents, setDocuments] = useState([])
  activeDocument,  \* App.jsx: const [activeDocument, setActiveDocument] = useState(null)
  isUploading,     \* Documents.jsx: const [isUploading, setIsUploading] = useState(false)
  uploadError,     \* DocumentUploader.jsx: const [uploadError, setUploadError] = useState(null)
  uploads,         \* pending handleFiles batches: their closures and setTimeout timers, oldest first
  accepted,        \* history: number of allowed-type files handed to handleFiles so far
  messages,        \* Chat.jsx: const [messages, setMessages] = useState([greeting])
  replyTimers,     \* pending reply timers of handleSendMessage with their closures, oldest first
  text,            \* chunkText: the text argument
  maxChunkSize,    \* chunkText: the maxChunkSize argument
  chunkOverlap,    \* chunkText: the chunkOverlap argument
  startIndex,      \* chunkText: let startIndex
  chunks,          \* chunkText: const chunks
  spans,           \* history: the (startIndex, endIndex) each recorded chunk was cut with
  chunkPc,         \* chunkText: "start", "loop", "done" (returned), "outOfRange"
  pdfPc,           \* extractPdfText: the await the call is at, or "resolved" / "rejected" ("idle": no call)
  numPages,        \* extractPdfText: const numPages = pdf.numPages
  metadata,        \* extractPdfText: const metadata
  pages,           \* extractPdfText: const pages
  pdfResult,       \* extractPdfText: the value the promise resolved with, if any
  pdfError,        \* extractPdfText: the message of the Error the promise rejected with, if any
  pdfFailed,       \* history: the steps of the call that failed
  pending,         \* the browser's timer table: the ids of the pending setTimeout timers
  timerLog,        \* history: kind and fate of every timer scheduled, by id
  viewer,          \* DocumentViewer: mounted?, the document prop, loading, the effect's timer
  widgets,         \* Flashcards currentIndex and flipped, ChatMessage copied, ChatInterface isTyping
  token,           \* localStorage: the item 'token'
  user,            \* AuthContext.jsx: const [user, setUser] = useState(null)
  isLoading,       \* AuthContext.jsx: const [isLoading, setIsLoading] = useState(true)
  error,           \* AuthContext.jsx: const [error, setError] = useState(null)
  isAuthEnabled,   \* AuthContext.jsx: import.meta.env.VITE_AUTH_ENABLED === 'true'
  authPc,          \* AuthProvider: "mounted" before its effect has run, "started" after
  inflight,        \* the HTTP requests sent through the api instance and not yet answered
  settled,         \* history: the call that settled last, its response and its result
  sent,            \* history: the number of HTTP requests sent
  sumText,         \* generateSummary: the text argument
  sumMaxLength,    \* generateSummary: the maxLength argument
  summary,         \* generateSummary: the string returned, if the call has returned
  query,           \* findRelevantPassages: the query argument
  textChunks,      \* findRelevantPassages: the textChunks argument
  passages,        \* findRelevantPassages: the array returned, if the call has returned
  route,           \* react-router: location.pathname, the path of the page rendered
  redirected       \* history: the effect of the Chat page redirected the last navigation

uploadVars == <<isUploading, uploadError, uploads, accepted>>
chatVars == <<messages, replyTimers>>
chunkVars == <<text, maxChunkSize, chunkOverlap, startIndex, chunks, spans, chunkPc>>

pdfVars == <<pdfPc, numPages, metadata, pages, pdfResult, pdfError, pdfFailed>>
timerVars == <<pending, timerLog, viewer, widgets>>
authVars == <<user, isLoading, error, isAuthEnabled, authPc>>
apiVars == <<token, authVars, inflight, settled, sent>>
summaryVars == <<sumText, sumMaxLength, summary>>
passageVars == <<query, textChunks, passages>>
navVars == <<route, redirected>>

\* What the clock, the pages, the Documents page, the Chat page, the calls and the
\* components leave alone.
offClock ==
  <<documents, activeDocument, uploadVars, chatVars, chunkVars, pdfVars, timerVars, apiVars, summaryVars, passageVars,
    navVars>>
offPages == <<chunkVars, pdfVars, timerVars, apiVars, summaryVars, passageVars>>
offDocuments == <<chatVars, offPages, navVars>>
offChat ==
  <<uploadVars, chunkVars, pdfVars, timerVars, apiVars, summaryVars, passageVars,
    navVars>>
offChunk ==
  <<now, documents, activeDocument, uploadVars, chatVars, pdfVars, timerVars, apiVars, summaryVars, passageVars,
    navVars>>
offPdf ==
  <<now, documents, activeDocument, uploadVars, chatVars, chunkVars, timerVars, apiVars, summaryVars, passageVars,
    navVars>>
offTimers == <<now, documents, activeDocument, uploadVars, chatVars, chunkVars, pdfVars, apiVars,
    summaryVars, passageVars, navVars>>
offApi ==
  <<now, documents, activeDocument, uploadVars, chatVars, chunkVars, pdfVars, timerVars,
    summaryVars, passageVars, navVars>>
offSummary ==
  <<now, documents, activeDocument, uploadVars, chatVars, chunkVars, pdfVars, timerVars,
    apiVars, passageVars, navVars>>
offPassages ==
  <<now, documents, activeDocument, uploadVars, chatVars, chunkVars, pdfVars, timerVars,
    apiVars, summaryVars, navVars>>

\* ------------------------------------------------------------------ bounds

\* The clock at the start of the session (any present-day Date.now(), far above 1).
StartTime == 100000
\* Single-millisecond clock steps taken between two whole timer delays.
MaxTicks == 1
\* Allowed-type files uploaded in a session.
MaxDocs == 2
\* Files in one FileList.
MaxFiles == 2
\* The resolution of Math.random(): its outcomes are the fractions k / RandScale.
RandScale == 1000

\* ------------------------------------------------------------------ values

\* JavaScript null / an optional value: <<>> is null, <<x>> is the value x.
None == <<>>
Some(x) == <<x>>

PDF == "application/pdf"
DOCX == "application/vnd.openxmlformats-officedocument.wordprocessingml.document"
PLAIN == "text/plain"

allowedFileTypes == {PDF, DOCX}

\* The delay of the upload timer, setTimeout(..., 1000).
UploadDelay == 1000

\* Math.random() returns k / RandScale for some 0 <= k < RandScale; the two
\* extremes of the range are explored.
MathRandom == {0, RandScale - 1}

\* Math.random().toString(36).substr(2, 9): the first nine base-36 digits of the
\* fraction, without the trailing zeros toString does not print ("" for 0).
RECURSIVE Digits36(_, _)
Digits36(num, n) ==
  IF n = 0 \/ num = 0 THEN <<>>
  ELSE <<(num * 36) \div RandScale>> \o Digits36((num * 36) % RandScale, n - 1)

RandomSuffix(r) == Digits36(r, 9)

\* Math.floor(Math.random() * 20) + 5
RandomPages(r) == (r * 20) \div RandScale + 5

\* The files a user can pick or drop.
FilePool ==
  { [name |-> "a.pdf",  type |-> PDF,   size |-> 10],
    [name |-> "b.docx", type |-> DOCX,  size |-> 20],
    [name |-> "c.txt",  type |-> PLAIN, size |-> 30] }

\* A FileList of distinct files: handleDrop and handleChange call handleFiles only
\* when files[0] exists.
FileLists ==
  {fs \in UNION {[1..n -> FilePool] : n \in 1..MaxFiles} :
     \A i, j \in DOMAIN fs : i /= j => fs[i] /= fs[j]}

\* Array.from(files).filter(file => allowedFileTypes.includes(file.type))
IsAllowed(file) == file.type \in allowedFileTypes
\* (mutant: the type filter is left out)
ValidFiles_Unfiltered(files) == files
ValidFiles(files) == SelectSeq(files, IsAllowed)

\* The record the timer callback builds for one file; Date.now() + <suffix> is
\* string concatenation, and the timestamps of one session have the same number of
\* digits, so two ids are equal exactly when both parts are.
NewDocument(file, t, rId, rPages) ==
  [ id         |-> [ts |-> t, suffix |-> RandomSuffix(rId)],
    name       |-> file.name,
    type       |-> file.type,
    size       |-> file.size,
    uploadDate |-> t,
    content    |-> "placeholder",
    pages      |-> IF file.type = PDF THEN Some(RandomPages(rPages)) ELSE None ]

\* setDocuments([...documents, ...newDocuments]), documents being the list the
\* handleFiles call closed over.
CompletedDocuments(closure, newDocuments) == closure \o newDocuments

\* ------------------------------------------------------------------ clock

\* The single milliseconds that have passed besides whole timer delays.
TicksUsed(delay) == (now - StartTime) % delay

\* A millisecond passes.
Tick(delay) ==
  /\ TicksUsed(delay) < MaxTicks
  /\ now' = now + 1
  /\ UNCHANGED offClock

\* Time passes until the oldest pending upload timer is due.
AwaitUpload ==
  /\ uploads /= <<>>
  /\ now < Head(uploads).due
  /\ now' = Head(uploads).due
  /\ UNCHANGED offClock

\* ------------------------------------------------------------------ routing

\* The paths the Sidebar and the Navbar navigate to; App has a Route for the first
\* four, and nothing is rendered for /settings (nor for /help, which is like it).
Paths == {"/", "/documents", "/chat", "/study-tools", "/settings"}

\* The effect of the Chat page, run after mounting and after a change of the
\* documents list: without documents it navigates to /documents. docs is the list
\* of the context, path the path rendered; the result is the path rendered next.
\* (mutant: the effect does not navigate)
ChatEffect_Stay(docs, path) == path
ChatEffect(docs, path) ==
  IF path = "/chat" /\ Len(docs) = 0 THEN "/documents" ELSE path

\* The initial message of useState.
Greeting(t) ==
  [id |-> 1, sender |-> "bot", text |-> [kind |-> "greeting", about |-> <<>>],
   timestamp |-> t, source |-> None]

\* The messages of the Chat page after the path rendered has changed from one path
\* to another: a newly mounted Chat page starts with the greeting, and no Chat page
\* has no messages.
ChatMessages(from, to, msgs, t) ==
  IF to /= "/chat" THEN <<>>
  ELSE IF from = "/chat" THEN msgs
  ELSE <<Greeting(t)>>

\* ------------------------------------------------------------------ Documents page

\* The alert of a batch without an allowed file
\* (mutant: the alert of a failed upload is shown instead)
UnsupportedMessage_UploadFailed == "An error occurred while uploading documents."
UnsupportedMessage == "Only PDF and Word documents are supported."

\* handleDrop / handleChange -> handleFiles(files)
HandleFiles(files) ==
  LET validFiles == ValidFiles(files) IN
  /\ route = "/documents"
  /\ accepted + Len(validFiles) <= MaxDocs
  /\ accepted' = accepted + Len(validFiles)
  /\ IF validFiles = <<>>
     THEN /\ uploadError' = Some(UnsupportedMessage)
          /\ isUploading' = FALSE
          /\ uploads' = uploads
     ELSE /\ uploadError' = None
          /\ isUploading' = TRUE
          /\ uploads' = Append(uploads,
                 [ documents    |-> documents,
                   files        |-> files,
                   validFiles   |-> validFiles,
                   newDocuments |-> <<>>,
                   due          |-> now + UploadDelay,
                   mounted      |-> TRUE ])
  /\ UNCHANGED <<now, documents, activeDocument, offDocuments>>

\* The timer of the next file of the oldest batch runs: it resolves the file's
\* promise with its record, and after the last file of the batch Promise.all
\* resolves and its then-callback runs before any other event. setIsUploading
\* does nothing once the Documents page the batch was started on is unmounted
\* (mounted is false); the new documents list re-runs the effect of a Chat page.
UploadTimer(rId, rPages) ==
  /\ uploads /= <<>>
  /\ now >= Head(uploads).due
  /\ LET b == Head(uploads)
         file == b.validFiles[Len(b.newDocuments) + 1]
         newDocuments == Append(b.newDocuments, NewDocument(file, now, rId, rPages))
     IN IF Len(newDocuments) < Len(b.validFiles)
        THEN /\ uploads' = <<[b EXCEPT !.newDocuments = newDocuments]>> \o Tail(uploads)
             /\ UNCHANGED <<documents, isUploading, messages, navVars>>
        ELSE /\ uploads' = Tail(uploads)
             /\ documents' = CompletedDocuments(b.documents, newDocuments)
             /\ isUploading' = IF b.mounted THEN FALSE ELSE isUploading
             /\ route' = ChatEffect(documents', route)
             /\ redirected' = IF route' /= route THEN TRUE ELSE redirected
             /\ messages' = ChatMessages(route, route', messages, now)
  /\ UNCHANGED <<now, activeDocument, uploadError, accepted, replyTimers, offPages>>

\* No chunkText call is in progress.
ChunkIdle ==
  /\ text = [isNull |-> TRUE, str |-> <<>>]
  /\ maxChunkSize = 0
  /\ chunkOverlap = 0
  /\ startIndex = 0
  /\ chunks = <<>>
  /\ spans = <<>>
  /\ chunkPc = "done"

\* No extractPdfText call is in progress.
PdfIdle ==
  /\ pdfPc = "idle"
  /\ numPages = 0
  /\ metadata = None
  /\ pages = <<>>
  /\ pdfResult = None
  /\ pdfError = None
  /\ pdfFailed = {}

\* No timer has been scheduled and no component with a timer is mounted.
TimersIdle ==
  /\ pending = {}
  /\ timerLog = <<>>
  /\ viewer = [mounted |-> FALSE, document |-> None, loading |-> TRUE, timer |-> None]
  /\ widgets = [currentIndex |-> 0, flipped |-> FALSE, copied |-> FALSE, isTyping |-> FALSE]

\* No AuthProvider is mounted and no request has been sent.
ApiIdle ==
  /\ token = None
  /\ user = None
  /\ isLoading = TRUE
  /\ error = None
  /\ isAuthEnabled = FALSE
  /\ authPc = "started"
  /\ inflight = <<>>
  /\ settled = None
  /\ sent = 0

\* No generateSummary call and no findRelevantPassages call has been made.
SummaryIdle ==
  /\ sumText = <<>>
  /\ sumMaxLength = 0
  /\ summary = None

PassagesIdle ==
  /\ query = <<>>
  /\ textChunks = <<>>
  /\ passages = None

\* The calls and components outside the Documents and Chat pages are idle.
UtilsIdle ==
  /\ TimersIdle
  /\ ApiIdle
  /\ SummaryIdle
  /\ PassagesIdle

\* Nothing has happened on the pages: the state of App and Documents after mounting.
PagesIdle ==
  /\ now = StartTime
  /\ documents = <<>>
  /\ activeDocument = None
  /\ isUploading = FALSE
  /\ uploadError = None
  /\ uploads = <<>>
  /\ accepted = 0
  /\ messages = <<>>
  /\ replyTimers = <<>>
  /\ route = "/documents"
  /\ redirected = FALSE

vars ==
  <<now, documents, activeDocument, uploadVars, chatVars, chunkVars, pdfVars, timerVars,
    apiVars, summaryVars, passageVars, navVars>>

Init ==
  /\ PagesIdle
  /\ ChunkIdle
  /\ PdfIdle
  /\ UtilsIdle

Next ==
  \/ Tick(UploadDelay)
  \/ AwaitUpload
  \/ \E files \in FileLists : HandleFiles(files)
  \/ \E rId \in MathRandom, rPages \in MathRandom : UploadTimer(rId, rPages)

Spec == Init /\ [][Next]_vars

\* ------------------------------------------------------------------ Chat page

\* Accepted sends and focus messages in one Chat session (the greeting included,
\* pending replies counted).
MaxMessages == 5

\* The delay of the reply timer, setTimeout(..., 1000).
ReplyDelay == 1000

\* Strings are sequences of characters. The texts a user can send; a null or
\* undefined argument is [isNull |-> TRUE].
TextPool == {<<>>, <<" ">>, <<"q">>, <<" ", "q">>}
ChatInputs ==
  {[isNull |-> TRUE, str |-> <<>>]} \cup {[isNull |-> FALSE, str |-> t] : t \in TextPool}

IsSpace(c) == c = " "

\* String.prototype.trim
RECURSIVE TrimStart(_)
TrimStart(str) ==
  IF str /= <<>> /\ IsSpace(Head(str)) THEN TrimStart(Tail(str)) ELSE str
RECURSIVE TrimEnd(_)
TrimEnd(str) ==
  IF str /= <<>> /\ IsSpace(str[Len(str)]) THEN TrimEnd(SubSeq(str, 1, Len(str) - 1)) ELSE str
Trim(str) == TrimEnd(TrimStart(str))

\* !text || !text.trim()
IsBlank(input) == input.isNull \/ input.str = <<>> \/ Trim(input.str) = <<>>

\* The system message of handleDocumentSelect.
FocusMessage(document, t) ==
  [id |-> t, sender |-> "bot", text |-> [kind |-> "focus", about |-> Some(document.name)],
   timestamp |-> t, source |-> None]

\* userMessage of handleSendMessage.
UserMessage(input, t) ==
  [id |-> t, sender |-> "user", text |-> [kind |-> "user", about |-> input.str],
   timestamp |-> t, source |-> None]

\* Math.floor(Math.random() * 5) + 1
RandomPage(r) == (r * 5) \div RandScale + 1

\* botResponse of the reply timer; active is the activeDocument the handler closed over.
BotResponse(active, t, rPage) ==
  [id |-> t + 1, sender |-> "bot",
   text |-> [kind |-> "analyzing",
             about |-> IF active /= None THEN Some(active[1].name) ELSE None],
   timestamp |-> t,
   source |-> IF active /= None
              THEN Some([document |-> active[1].name, page |-> RandomPage(rPage)])
              ELSE None]

\* setMessages(prev => [...prev, message])
\* (mutant: the new message replaces the last one)
AddMessage_ReplaceLast(prev, message) == SubSeq(prev, 1, Len(prev) - 1) \o <<message>>
AddMessage(prev, message) == Append(prev, message)

\* setTimeout(() => {...}, 1000) in handleSendMessage
\* (mutant: no timer is scheduled)
ScheduleReply_None(timers, active, t) == timers
ScheduleReply(timers, active, t) ==
  Append(timers, [due |-> t + ReplyDelay, activeDocument |-> active])

\* Messages and pending replies the session has room for.
ChatRoom == MaxMessages - Len(messages) - Len(replyTimers)

\* Chat.jsx handleSendMessage(text), input being its text argument
HandleSendMessage(input) ==
  /\ messages /= <<>>
  /\ IF IsBlank(input)
     THEN UNCHANGED chatVars
     ELSE /\ ChatRoom >= 2
          /\ messages' = AddMessage(messages, UserMessage(input, now))
          /\ replyTimers' = ScheduleReply(replyTimers, activeDocument, now)
  /\ UNCHANGED <<now, documents, activeDocument, offChat>>

\* The callback of the oldest reply timer runs.
ReplyTimer(rPage) ==
  /\ replyTimers /= <<>>
  /\ now >= Head(replyTimers).due
  /\ messages' = AddMessage(messages, BotResponse(Head(replyTimers).activeDocument, now, rPage))
  /\ replyTimers' = Tail(replyTimers)
  /\ UNCHANGED <<now, documents, activeDocument, offChat>>

\* Time passes until the oldest pending reply timer is due.
AwaitReply ==
  /\ replyTimers /= <<>>
  /\ now < Head(replyTimers).due
  /\ now' = Head(replyTimers).due
  /\ UNCHANGED offClock

\* Chat.jsx handleDocumentSelect(document): document is null or a record of the list.
ChatDocumentSelect(document) ==
  /\ messages /= <<>>
  /\ IF document = None
     THEN UNCHANGED <<activeDocument, chatVars>>
     ELSE /\ ChatRoom >= 1
          /\ activeDocument' = document
          /\ messages' = AddMessage(messages, FocusMessage(document[1], now))
          /\ UNCHANGED replyTimers
  /\ UNCHANGED <<now, documents, offChat>>

\* The documents the Chat page is opened with: a PDF and a Word file uploaded in
\* one batch (with no documents the page redirects to /documents).
ChatDocuments ==
  << NewDocument([name |-> "a.pdf", type |-> PDF, size |-> 10], StartTime, 0, RandScale - 1),
     NewDocument([name |-> "b.docx", type |-> DOCX, size |-> 20], StartTime, RandScale - 1, 0) >>

\* The Chat page has just been mounted; a document may have been selected on the
\* Documents page before.
ChatInit ==
  /\ now = StartTime
  /\ documents = ChatDocuments
  /\ activeDocument \in {None, Some(ChatDocuments[1])}
  /\ isUploading = FALSE
  /\ uploadError = None
  /\ uploads = <<>>
  /\ accepted = Len(ChatDocuments)
  /\ messages = <<Greeting(StartTime)>>
  /\ replyTimers = <<>>
  /\ route = "/chat"
  /\ redirected = FALSE
  /\ ChunkIdle
  /\ PdfIdle
  /\ UtilsIdle

ChatNext ==
  \/ Tick(ReplyDelay)
  \/ AwaitReply
  \/ \E input \in ChatInputs : HandleSendMessage(input)
  \/ \E rPage \in MathRandom : ReplyTimer(rPage)
  \/ \E document \in {None} \cup {Some(documents[i]) : i \in 1..Len(documents)} :
       ChatDocumentSelect(document)

ChatSpec == ChatInit /\ [][ChatNext]_vars

\* The event loop runs a timer callback once its delay has passed.
FairChatSpec == ChatSpec /\ WF_vars(AwaitReply) /\ WF_vars(\E rPage \in MathRandom : ReplyTimer(rPage))

\* ------------------------------------------------------------------ App: navigation

\* The pending batches after the Documents page they were started on is unmounted:
\* their timers stay scheduled, their setIsUploading calls do nothing.
Orphaned(batches) == [i \in 1..Len(batches) |-> [batches[i] EXCEPT !.mounted = FALSE]]

\* navigate(path) to a path other than the one rendered: the page rendered is
\* unmounted and loses its state, the page of the path is mounted, and the effect
\* of a Chat page runs before any other event. documents and activeDocument are
\* state of App and are kept.
Navigate(path) ==
  /\ path /= route
  /\ LET to == ChatEffect(documents, path) IN
     /\ route' = to
     /\ redirected' = (to /= path)
     /\ messages' = ChatMessages(route, to, messages, now)
  /\ IF route = "/documents"
     THEN /\ isUploading' = FALSE
          /\ uploadError' = None
          /\ uploads' = Orphaned(uploads)
     ELSE UNCHANGED <<isUploading, uploadError, uploads>>
  /\ UNCHANGED <<now, documents, activeDocument, accepted, replyTimers, offPages>>

\* Sidebar and Navbar: onClick={() => navigate(item.path)}
SidebarNavigate(path) == Navigate(path)

\* Home: the 'Upload Documents' button
HomeUploadDocuments ==
  /\ route = "/"
  /\ Navigate("/documents")

\* Home: disabled={documents.length === 0} of the 'Start Chatting' button
StartChattingDisabled == Len(documents) = 0

\* Home: the 'Start Chatting' button; a disabled button fires no click.
HomeStartChatting ==
  /\ route = "/"
  /\ ~StartChattingDisabled
  /\ Navigate("/chat")

\* Home: 'Chat with this document' on a card of Recent Documents, rendered when
\* documents.length > 0.
HomeChatWithDocument ==
  /\ route = "/"
  /\ Len(documents) > 0
  /\ Navigate("/chat")

\* DocumentViewer (rendered by Documents when activeDocument is set): handleChat
\* and handleStudyTools
ViewerHandleChat ==
  /\ route = "/documents"
  /\ activeDocument /= None
  /\ Navigate("/chat")

ViewerHandleStudyTools ==
  /\ route = "/documents"
  /\ activeDocument /= None
  /\ Navigate("/study-tools")

\* Documents.jsx handleDocumentSelect(document): DocumentList calls it with a record
\* of the documents list it renders.
DocumentsDocumentSelect(document) ==
  /\ route = "/documents"
  /\ activeDocument' = Some(document)
  /\ UNCHANGED <<now, documents, uploadVars, offDocuments>>

\* The records DocumentList renders.
Listed == {documents[i] : i \in 1..Len(documents)}

\* The app has been opened at a path: with no documents yet, /chat has redirected
\* to /documents.
AppInit ==
  /\ now = StartTime
  /\ documents = <<>>
  /\ activeDocument = None
  /\ isUploading = FALSE
  /\ uploadError = None
  /\ uploads = <<>>
  /\ accepted = 0
  /\ messages = <<>>
  /\ replyTimers = <<>>
  /\ \E path \in Paths :
       /\ route = ChatEffect(documents, path)
       /\ redirected = (route /= path)
  /\ ChunkIdle
  /\ PdfIdle
  /\ UtilsIdle

AppNext ==
  \/ AwaitUpload
  \/ \E files \in FileLists : HandleFiles(files)
  \/ \E rId \in MathRandom, rPages \in MathRandom : UploadTimer(rId, rPages)
  \/ HomeUploadDocuments
  \/ HomeStartChatting
  \/ HomeChatWithDocument
  \/ ViewerHandleChat
  \/ ViewerHandleStudyTools
  \/ \E path \in Paths : SidebarNavigate(path)
  \/ \E document \in Listed : DocumentsDocumentSelect(document)
  \/ \E document \in Listed : ChatDocumentSelect(Some(document))

\* Time passes only up to the expiry of a timer: document ids and timestamps a
\* millisecond apart are in Spec.
AppSpec == AppInit /\ [][AppNext]_vars

\* ------------------------------------------------------------------ chunkText

\* The longest text chunked.
MaxTextLen == 6
\* The largest maxChunkSize and chunkOverlap arguments besides the defaults.
MaxChunkArg == 5
MaxOverlapArg == 2
\* The lowest startIndex followed: a call that goes below it is "outOfRange".
MaxDepth == 4
\* The iterations followed, more than any returning call of the model takes: a
\* call that has pushed this many chunks is "outOfRange".
MaxChunks == MaxTextLen + 1

\* The default arguments: maxChunkSize = 1500, chunkOverlap = 100.
DefaultMaxChunkSize == 1500
DefaultChunkOverlap == 100

Chars == {"a", ".", " ", "\n"}
ChunkTexts ==
  {[isNull |-> TRUE, str |-> <<>>]}
    \cup {[isNull |-> FALSE, str |-> t] : t \in UNION {[1..n -> Chars] : n \in 0..MaxTextLen}}
ChunkArgs ==
  ((1..MaxChunkArg) \X (0..MaxOverlapArg)) \cup {<<DefaultMaxChunkSize, DefaultChunkOverlap>>}

Min(a, b) == IF a <= b THEN a ELSE b
Max(a, b) == IF a >= b THEN a ELSE b

\* String.prototype.substring(a, b): both indices are clamped to 0..length and
\* swapped when a > b.
Substring(str, a, b) ==
  LET ca == Max(0, Min(a, Len(str)))
      cb == Max(0, Min(b, Len(str)))
  IN SubSeq(str, Min(ca, cb) + 1, Max(ca, cb))

potentialBreaks == {<<".", " ">>, <<"?", " ">>, <<"!", " ">>, <<"\n", "\n">>}

\* text.substring(i - breakChar.length, i) === breakChar for one of the breaks
IsBreak(str, i) == \E breakChar \in potentialBreaks : Substring(str, i - Len(breakChar), i) = breakChar

\* endIndex of one iteration: Math.min(startIndex + maxChunkSize, text.length), moved
\* back to the last sentence break at an i with
\* i >= Math.max(startIndex + maxChunkSize * 0.8, startIndex) when the chunk ends
\* before the end of the text.
EndIndex(str, start, size) ==
  LET end == Min(start + size, Len(str))
      found == {i \in start..end : 10 * i >= 10 * start + 8 * size /\ IsBreak(str, i)}
  IN IF end < Len(str) /\ found /= {}
     THEN CHOOSE i \in found : \A j \in found : j <= i
     ELSE end

\* startIndex = endIndex - chunkOverlap
NextStart(end, overlap) == end - overlap

\* if (!text || text.length === 0) return [];
ChunkStart ==
  /\ chunkPc = "start"
  /\ chunkPc' = IF text.isNull \/ Len(text.str) = 0 THEN "done" ELSE "loop"
  /\ UNCHANGED <<text, maxChunkSize, chunkOverlap, startIndex, chunks, spans, offChunk>>

\* One iteration of while (startIndex < text.length).
ChunkLoop ==
  /\ chunkPc = "loop"
  /\ startIndex < Len(text.str)
  /\ LET endIndex == EndIndex(text.str, startIndex, maxChunkSize) IN
     /\ chunks' = Append(chunks, Substring(text.str, startIndex, endIndex))
     /\ spans' = Append(spans, <<startIndex, endIndex>>)
     /\ startIndex' = NextStart(endIndex, chunkOverlap)
     /\ chunkPc' = IF NextStart(endIndex, chunkOverlap) < -MaxDepth \/ Len(chunks) + 1 >= MaxChunks
                   THEN "outOfRange"
                   ELSE "loop"
  /\ UNCHANGED <<text, maxChunkSize, chunkOverlap, offChunk>>

\* The loop condition fails: return chunks.
ChunkReturn ==
  /\ chunkPc = "loop"
  /\ ~(startIndex < Len(text.str))
  /\ chunkPc' = "done"
  /\ UNCHANGED <<text, maxChunkSize, chunkOverlap, startIndex, chunks, spans, offChunk>>

\* A call chunkText(text, maxChunkSize, chunkOverlap) begins.
ChunkInit ==
  /\ PagesIdle
  /\ PdfIdle
  /\ UtilsIdle
  /\ text \in ChunkTexts
  /\ \E args \in ChunkArgs : maxChunkSize = args[1] /\ chunkOverlap = args[2]
  /\ startIndex = 0
  /\ chunks = <<>>
  /\ spans = <<>>
  /\ chunkPc = "start"

ChunkNext == ChunkStart \/ ChunkLoop \/ ChunkReturn

ChunkSpec == ChunkInit /\ [][ChunkNext]_vars

\* ------------------------------------------------------------------ extractPdfText

\* The most pages a PDF has.
MaxPdfPages == 3

\* The outcomes of an awaited step: it succeeds or it throws / rejects.
StepOutcomes == {"ok", "fail"}

\* textContent.items of a page, as the list of their str values (each a string).
ItemLists == {<<>>, <<<<"x">>>>, <<<<"x">>, <<"y", "z">>>>}

\* What pdf.getMetadata() can resolve with: an object with or without info.
MetadataObjects == {[info |-> Some("info")], [info |-> None]}

\* The empty object {}.
EmptyObject == None

\* Array.prototype.join(' ') of a list of strings
RECURSIVE Join(_)
Join(strs) ==
  IF strs = <<>> THEN <<>>
  ELSE IF Len(strs) = 1 THEN strs[1]
  ELSE strs[1] \o <<" ">> \o Join(Tail(strs))

\* textContent.items.map(item => item.str).join(' ')
PageText(items) == Join(items)

\* The object of the return statement.
PdfResult(pgs, meta, n) ==
  [ text     |-> Join([k \in 1..Len(pgs) |-> pgs[k].text]),
    pages    |-> pgs,
    metadata |-> IF meta.info /= None THEN meta.info ELSE EmptyObject,
    numPages |-> n ]

\* catch (error) { ...; throw new Error('Failed to extract text from PDF'); }
\* (mutant: the caught error is thrown again)
CatchMessage_Rethrow(cause) == cause
CatchMessage(cause) == "Failed to extract text from PDF"

\* An awaited step throws inside the try block: the catch block rejects the call.
PdfReject(step) ==
  /\ pdfPc' = "rejected"
  /\ pdfError' = Some(CatchMessage(step))
  /\ pdfFailed' = pdfFailed \cup {step}
  /\ UNCHANGED <<numPages, metadata, pages, pdfResult, offPdf>>

\* After the metadata, and after each page: the next page, or the return.
PdfAfter(pgs, meta) ==
  IF Len(pgs) < numPages
  THEN /\ pdfPc' = "getPage"
       /\ UNCHANGED pdfResult
  ELSE /\ pdfPc' = "resolved"
       /\ pdfResult' = Some(PdfResult(pgs, meta, numPages))

\* const arrayBuffer = await file.arrayBuffer();
PdfArrayBuffer(outcome) ==
  /\ pdfPc = "arrayBuffer"
  /\ IF outcome = "fail"
     THEN PdfReject("arrayBuffer")
     ELSE /\ pdfPc' = "getDocument"
          /\ UNCHANGED <<numPages, metadata, pages, pdfResult, pdfError, pdfFailed, offPdf>>

\* const pdf = await pdfjsLib.getDocument({ data: arrayBuffer }).promise;
PdfGetDocument(outcome, n) ==
  /\ pdfPc = "getDocument"
  /\ IF outcome = "fail"
     THEN PdfReject("getDocument")
     ELSE /\ pdfPc' = "getMetadata"
          /\ numPages' = n
          /\ UNCHANGED <<metadata, pages, pdfResult, pdfError, pdfFailed, offPdf>>

\* const metadata = await pdf.getMetadata().catch(() => ({}));
PdfGetMetadata(outcome, object) ==
  /\ pdfPc = "getMetadata"
  /\ LET meta == IF outcome = "fail" THEN [info |-> None] ELSE object IN
     /\ metadata' = Some(meta)
     /\ pdfFailed' = IF outcome = "fail" THEN pdfFailed \cup {"getMetadata"} ELSE pdfFailed
     /\ PdfAfter(pages, meta)
  /\ UNCHANGED <<numPages, pages, pdfError, offPdf>>

\* const page = await pdf.getPage(i);
PdfGetPage(outcome) ==
  /\ pdfPc = "getPage"
  /\ IF outcome = "fail"
     THEN PdfReject("getPage")
     ELSE /\ pdfPc' = "getTextContent"
          /\ UNCHANGED <<numPages, metadata, pages, pdfResult, pdfError, pdfFailed, offPdf>>

\* const textContent = await page.getTextContent(); pages.push({...});
PdfGetTextContent(outcome, items) ==
  /\ pdfPc = "getTextContent"
  /\ IF outcome = "fail"
     THEN PdfReject("getTextContent")
     ELSE LET pgs == Append(pages, [pageNumber |-> Len(pages) + 1, text |-> PageText(items)]) IN
          /\ pages' = pgs
          /\ PdfAfter(pgs, metadata[1])
          /\ UNCHANGED <<numPages, metadata, pdfError, pdfFailed, offPdf>>

\* A call extractPdfText(file) begins.
PdfInit ==
  /\ PagesIdle
  /\ ChunkIdle
  /\ UtilsIdle
  /\ pdfPc = "arrayBuffer"
  /\ numPages = 0
  /\ metadata = None
  /\ pages = <<>>
  /\ pdfResult = None
  /\ pdfError = None
  /\ pdfFailed = {}

PdfNext ==
  \/ \E outcome \in StepOutcomes : PdfArrayBuffer(outcome)
  \/ \E outcome \in StepOutcomes, n \in 0..MaxPdfPages : PdfGetDocument(outcome, n)
  \/ \E outcome \in StepOutcomes, object \in MetadataObjects : PdfGetMetadata(outcome, object)
  \/ \E outcome \in StepOutcomes : PdfGetPage(outcome)
  \/ \E outcome \in StepOutcomes, items \in ItemLists : PdfGetTextContent(outcome, items)

PdfSpec == PdfInit /\ [][PdfNext]_vars

\* ------------------------------------------------------------------ timers

\* Timers scheduled in a session.
MaxTimers == 2
\* filteredCards.length of the Flashcards component.
NumCards == 2

\* The documents the viewer can be given (null included).
ViewerDocuments == {None, Some("a.pdf"), Some("b.docx")}

\* setTimeout(callback, delay): a new pending timer, whose id is its place in the
\* log. The delay is some finite time, so a pending timer may run at any later step.
NextTimer == Len(timerLog) + 1
SetTimeout(log, kind) == Append(log, [kind |-> kind, status |-> "pending"])

\* clearTimeout(id): the timer leaves the table (nothing happens if it already ran)
\* (mutant: every pending timer is cleared)
ClearTimeout_All(table, id) == {}
ClearTimeout(table, id) == table \ {id}

\* The log once the table has become the given one: a timer that has left the table
\* without running was cleared.
LogCleared(log, table) ==
  [i \in DOMAIN log |->
     IF log[i].status = "pending" /\ i \notin table
     THEN [log[i] EXCEPT !.status = "cleared"]
     ELSE log[i]]

\* The cleanup of the viewer's effect: return () => clearTimeout(timer), if the last
\* run of the effect returned one.
ViewerCleanup(table) ==
  IF viewer.timer /= None THEN ClearTimeout(table, viewer.timer[1]) ELSE table

\* The viewer's effect runs for the document given: with a document it sets loading
\* and schedules the loading timer, with null it does nothing.
ViewerEffect(document, table, loading) ==
  IF document /= None
  THEN /\ Len(timerLog) < MaxTimers
       /\ pending' = table \cup {NextTimer}
       /\ timerLog' = SetTimeout(LogCleared(timerLog, table), "viewer")
       /\ viewer' = [mounted |-> TRUE, document |-> document, loading |-> TRUE,
                     timer |-> Some(NextTimer)]
  ELSE /\ pending' = table
       /\ timerLog' = LogCleared(timerLog, table)
       /\ viewer' = [mounted |-> TRUE, document |-> document, loading |-> loading,
                     timer |-> None]

\* <DocumentViewer document={...} /> is mounted: useState(true), then the effect.
ViewerMount(document) ==
  /\ ~viewer.mounted
  /\ ViewerEffect(document, pending, TRUE)
  /\ UNCHANGED <<widgets, offTimers>>

\* The document prop changes: the cleanup of the last effect, then the effect.
ViewerChange(document) ==
  /\ viewer.mounted
  /\ document /= viewer.document
  /\ ViewerEffect(document, ViewerCleanup(pending), viewer.loading)
  /\ UNCHANGED <<widgets, offTimers>>

\* The viewer is unmounted: the cleanup of the last effect.
ViewerUnmount ==
  /\ viewer.mounted
  /\ pending' = ViewerCleanup(pending)
  /\ timerLog' = LogCleared(timerLog, ViewerCleanup(pending))
  /\ viewer' = [mounted |-> FALSE, document |-> None, loading |-> TRUE, timer |-> None]
  /\ UNCHANGED <<widgets, offTimers>>

\* A handler schedules one timer of the kind given and sets its widget state.
Schedule(kind, after) ==
  /\ Len(timerLog) < MaxTimers
  /\ pending' = pending \cup {NextTimer}
  /\ timerLog' = SetTimeout(timerLog, kind)
  /\ widgets' = after
  /\ UNCHANGED <<viewer, offTimers>>

\* Flashcards: handleNextCard, handlePrevCard and handleFlip
HandleNextCard == Schedule("nextCard", [widgets EXCEPT !.flipped = FALSE])
HandlePrevCard == Schedule("prevCard", [widgets EXCEPT !.flipped = FALSE])
HandleFlip ==
  /\ widgets' = [widgets EXCEPT !.flipped = ~widgets.flipped]
  /\ UNCHANGED <<pending, timerLog, viewer, offTimers>>

\* ChatMessage and Summaries: handleCopy
HandleCopy == Schedule("copied", [widgets EXCEPT !.copied = TRUE])

\* ChatInterface: handleSend with a non-blank input
HandleSend == Schedule("typing", [widgets EXCEPT !.isTyping = TRUE])

\* Chat: the reply timer of handleSendMessage; DocumentUploader: the timer of one
\* file of handleFiles. What their callbacks do is in ReplyTimer and UploadTimer.
SendMessageTimer == Schedule("reply", widgets)
HandleFilesTimer == Schedule("upload", widgets)

\* What the callback of a timer of the kind given does to the widgets.
Callback(kind) ==
  CASE kind = "nextCard" ->
         [widgets EXCEPT !.currentIndex = (widgets.currentIndex + 1) % NumCards]
    [] kind = "prevCard" ->
         [widgets EXCEPT !.currentIndex = (widgets.currentIndex - 1 + NumCards) % NumCards]
    [] kind = "copied" -> [widgets EXCEPT !.copied = FALSE]
    [] kind = "typing" -> [widgets EXCEPT !.isTyping = FALSE]
    [] OTHER -> widgets

\* The delay of the pending timer id has passed: its callback runs.
RunTimer(id) ==
  /\ id \in pending
  /\ pending' = pending \ {id}
  /\ timerLog' = [timerLog EXCEPT ![id].status = "ran"]
  /\ widgets' = Callback(timerLog[id].kind)
  /\ viewer' = IF timerLog[id].kind = "viewer" THEN [viewer EXCEPT !.loading = FALSE] ELSE viewer
  /\ UNCHANGED offTimers

TimerInit ==
  /\ PagesIdle
  /\ ChunkIdle
  /\ PdfIdle
  /\ UtilsIdle

TimerNext ==
  \/ \E document \in ViewerDocuments : ViewerMount(document)
  \/ \E document \in ViewerDocuments : ViewerChange(document)
  \/ ViewerUnmount
  \/ HandleNextCard
  \/ HandlePrevCard
  \/ HandleFlip
  \/ HandleCopy
  \/ HandleSend
  \/ SendMessageTimer
  \/ HandleFilesTimer
  \/ \E id \in 1..MaxTimers : RunTimer(id)

TimerSpec == TimerInit /\ [][TimerNext]_vars

\* The event loop runs the callback of a pending timer once its delay has passed.
FairTimerSpec == TimerSpec /\ \A id \in 1..MaxTimers : WF_vars(RunTimer(id))

\* ------------------------------------------------------------------ api, services, AuthProvider

\* HTTP requests sent in a session.
MaxCalls == 2

DocumentOps ==
  {"uploadDocument", "getDocuments", "getDocumentById", "deleteDocument",
   "generateSummary", "generateFlashcards", "generateQuiz"}
ChatOps == {"sendMessage", "getChatHistory", "saveChatHistory", "exportChatTranscript"}
ServiceOps == DocumentOps \cup ChatOps
\* The requests of AuthProvider: /auth/login, /auth/register and /auth/profile.
AuthOps == {"login", "register", "profile"}

\* The token the server hands out, and the one an earlier session may have stored.
ServerTokens == {<<"t", "2">>}
StoredToken == <<"t", "1">>

\* The user the server knows, and the fixed user of the demo mode.
ServerUser == [id |-> "2", name |-> "Alice", email |-> "alice@example.com", role |-> "user"]
\* (mutant: the demo mode signs the server's user in)
DemoUser_Server == ServerUser
DemoUser == [id |-> "1", name |-> "Demo User", email |-> "demo@example.com", role |-> "user"]

\* JavaScript true, false and undefined as results of a call.
JsTrue == [boolean |-> TRUE]
JsFalse == [boolean |-> FALSE]
JsUndefined == [undefined |-> TRUE]

\* A 2xx response, and an error: with a response of another status (and possibly a
\* message in its data) or without any response (network failure, timeout).
Fulfilled(data) == [ok |-> TRUE, status |-> Some(200), data |-> Some(data)]
Rejected(status, message) == [ok |-> FALSE, status |-> status, data |-> message]

Failures ==
  { Rejected(Some(401), Some("Invalid credentials")), Rejected(Some(500), None),
    Rejected(None, None) }

\* What the server can answer to a request of the operation given.
Responses(op) ==
  Failures \cup
    IF op \in {"login", "register"}
    THEN {Fulfilled([token |-> t, user |-> ServerUser]) : t \in ServerTokens}
    ELSE IF op = "profile" THEN {Fulfilled(ServerUser)}
    ELSE {Fulfilled([payload |-> op])}

AllResponses == UNION {Responses(op) : op \in ServiceOps \cup AuthOps}

\* A string is truthy when it is neither null nor empty.
Truthy(stored) == stored /= None /\ stored[1] /= <<>>

\* The request interceptor: the Authorization header of the request, if any, from
\* the token localStorage holds when the request is issued.
Bearer == <<"B", "e", "a", "r", "e", "r", " ">>
\* (mutant: the header is never added)
RequestInterceptor_None(stored) == None
RequestInterceptor(stored) ==
  IF Truthy(stored) THEN Some(Bearer \o stored[1]) ELSE None

\* localStorage.removeItem('token')
\* (mutant: the item is kept)
RemoveItem_Keep(stored) == stored
RemoveItem(stored) == None

\* The response interceptor: what localStorage holds after it; a response is passed
\* on and an error is rejected again, both as they came.
\* (mutant: a 401 is not handled)
ResponseInterceptor_Ignore(stored, response) == stored
ResponseInterceptor(stored, response) ==
  IF ~response.ok /\ response.status = Some(401) THEN RemoveItem(stored) ELSE stored

\* What a service operation returns for a 2xx response
\* (mutant: exportChatTranscript returns the response data too)
ServiceReturn_Data(op, response) == response.data[1]
ServiceReturn(op, response) ==
  IF op = "exportChatTranscript" THEN JsTrue ELSE response.data[1]

\* try { ...; return ... } catch (error) { console.error(...); throw error; }
ServiceResult(op, response) ==
  IF response.ok
  THEN [kind |-> "returned", value |-> ServiceReturn(op, response)]
  ELSE [kind |-> "thrown", value |-> response]

\* error.response?.data?.message || fallback
LoginFallback == "Login failed. Please check your credentials."
RegisterFallback == "Registration failed. Please try again."
ErrorMessage(response, fallback) ==
  IF response.status /= None /\ response.data /= None THEN response.data[1] ELSE fallback

\* api.get / api.post / api.delete: the request passes the request interceptor and
\* is sent.
Send(op) ==
  /\ sent < MaxCalls
  /\ sent' = sent + 1
  /\ inflight' = Append(inflight, [op |-> op, authorization |-> RequestInterceptor(token)])

\* The effect of AuthProvider runs after mounting.
Startup ==
  /\ authPc = "mounted"
  /\ authPc' = "started"
  /\ IF ~isAuthEnabled
     THEN /\ user' = Some(DemoUser)
          /\ isLoading' = FALSE
          /\ UNCHANGED <<inflight, sent>>
     ELSE IF ~Truthy(token)
     THEN /\ isLoading' = FALSE
          /\ UNCHANGED <<user, inflight, sent>>
     ELSE /\ Send("profile")
          /\ UNCHANGED <<user, isLoading>>
  /\ UNCHANGED <<token, error, isAuthEnabled, settled, offApi>>

\* A component calls an operation of documentService or chatService.
ServiceCall(op) ==
  /\ authPc = "started"
  /\ Send(op)
  /\ UNCHANGED <<token, authVars, settled, offApi>>

\* login(email, password) and register(name, email, password), up to their await
AuthCall(op) ==
  /\ authPc = "started"
  /\ error' = None
  /\ Send(op)
  /\ UNCHANGED <<token, user, isLoading, isAuthEnabled, authPc, settled, offApi>>

Login == AuthCall("login")
Register == AuthCall("register")

\* isAuthenticated: !!user
IsAuthenticated == user /= None

\* logout()
Logout ==
  /\ authPc = "started"
  /\ token' = RemoveItem(token)
  /\ user' = None
  /\ UNCHANGED <<isLoading, error, isAuthEnabled, authPc, inflight, settled, sent, offApi>>

\* A sequence without its i-th element.
Remove(seq, i) == SubSeq(seq, 1, i - 1) \o SubSeq(seq, i + 1, Len(seq))

\* The answer to the i-th request in flight arrives: the response interceptor runs,
\* and then the rest of the call that awaits the request, before any other event.
\* settled records the request, the response, what localStorage held when the
\* interceptor had passed the response or the error on, and the result of the call.
Respond(i, response) ==
  /\ i \in 1..Len(inflight)
  /\ response \in Responses(inflight[i].op)
  /\ LET op == inflight[i].op
         stored == ResponseInterceptor(token, response)
         fallback == IF op = "login" THEN LoginFallback ELSE RegisterFallback
     IN
     /\ inflight' = Remove(inflight, i)
     /\ CASE op \in ServiceOps ->
               /\ token' = stored
               /\ settled' = Some([request |-> inflight[i], response |-> response, stored |-> stored,
                                   result |-> ServiceResult(op, response)])
               /\ UNCHANGED <<user, isLoading, error>>
          [] op \in {"login", "register"} ->
               /\ token' = IF response.ok THEN Some(response.data[1].token) ELSE stored
               /\ user' = IF response.ok THEN Some(response.data[1].user) ELSE user
               /\ error' = IF response.ok THEN error
                           ELSE Some(ErrorMessage(response, fallback))
               /\ settled' = Some([request |-> inflight[i], response |-> response, stored |-> stored,
                                   result |-> [kind |-> "returned",
                                               value |-> IF response.ok THEN JsTrue ELSE JsFalse]])
               /\ UNCHANGED isLoading
          [] op = "profile" ->
               /\ token' = IF response.ok THEN stored ELSE RemoveItem(stored)
               /\ user' = IF response.ok THEN Some(response.data[1]) ELSE user
               /\ isLoading' = FALSE
               /\ settled' = Some([request |-> inflight[i], response |-> response, stored |-> stored,
                                   result |-> [kind |-> "returned", value |-> JsUndefined]])
               /\ UNCHANGED error
  /\ UNCHANGED <<isAuthEnabled, authPc, sent, offApi>>

\* AuthProvider has just been mounted; localStorage may hold the token of an
\* earlier session.
ApiInit ==
  /\ PagesIdle
  /\ ChunkIdle
  /\ PdfIdle
  /\ TimersIdle
  /\ SummaryIdle
  /\ PassagesIdle
  /\ token \in {None, Some(StoredToken)}
  /\ user = None
  /\ isLoading = TRUE
  /\ error = None
  /\ isAuthEnabled \in BOOLEAN
  /\ authPc = "mounted"
  /\ inflight = <<>>
  /\ settled = None
  /\ sent = 0

ApiNext ==
  \/ Startup
  \/ \E op \in ServiceOps : ServiceCall(op)
  \/ Login
  \/ Register
  \/ Logout
  \/ \E i \in 1..MaxCalls, response \in AllResponses : Respond(i, response)

ApiSpec == ApiInit /\ [][ApiNext]_vars

\* The effect runs after mounting, and the profile request is answered or fails: the
\* api instance has a timeout of 30 seconds.
ProfileResponse ==
  \E i \in 1..MaxCalls :
    /\ i <= Len(inflight)
    /\ inflight[i].op = "profile"
    /\ \E response \in Responses("profile") : Respond(i, response)

FairApiSpec == ApiSpec /\ WF_vars(Startup) /\ WF_vars(ProfileResponse)

\* ------------------------------------------------------------------ generateSummary

\* The longest text summarized and the largest maxLength besides the default.
MaxSummaryText == 7
MaxSummaryArg == 5

\* The default argument: maxLength = 500.
DefaultMaxLength == 500

SummaryChars == {"a", ".", "!"}
SummaryTexts == UNION {[1..n -> SummaryChars] : n \in 0..MaxSummaryText}
SummaryArgs == (0..MaxSummaryArg) \cup {DefaultMaxLength}

\* The class [\.!\?] of the sentence pattern.
IsTerminator(c) == c \in {".", "!", "?"}

\* The length of the longest prefix of str made of terminators (or of none).
RECURSIVE Run(_, _)
Run(str, terminators) ==
  IF str /= <<>> /\ (IsTerminator(Head(str)) <=> terminators)
  THEN 1 + Run(Tail(str), terminators)
  ELSE 0

\* text.match(/[^\.!\?]+[\.!\?]+/g) || []: from left to right, each match is a
\* longest run of other characters with the longest run of terminators behind it;
\* terminators at the start of the text and a last run without a terminator
\* belong to no match.
RECURSIVE Sentences(_)
Sentences(str) ==
  IF str = <<>> THEN <<>>
  ELSE IF IsTerminator(Head(str)) THEN Sentences(Tail(str))
  ELSE LET n == Run(str, FALSE)
           m == Run(SubSeq(str, n + 1, Len(str)), TRUE)
       IN IF m = 0 THEN <<>>
          ELSE <<SubSeq(str, 1, n + m)>> \o Sentences(SubSeq(str, n + m + 1, Len(str)))

\* The for loop: a sentence that fits is added, the first that does not ends the loop
\* (mutant: a sentence that does not fit is skipped and the loop goes on)
RECURSIVE Summarize_Continue(_, _, _)
Summarize_Continue(sentences, soFar, maxLength) ==
  IF sentences = <<>> THEN soFar
  ELSE IF Len(soFar) + Len(Head(sentences)) <= maxLength
  THEN Summarize_Continue(Tail(sentences), soFar \o Head(sentences), maxLength)
  ELSE Summarize_Continue(Tail(sentences), soFar, maxLength)
RECURSIVE Summarize(_, _, _)
Summarize(sentences, soFar, maxLength) ==
  IF sentences = <<>> THEN soFar
  ELSE IF Len(soFar) + Len(Head(sentences)) <= maxLength
  THEN Summarize(Tail(sentences), soFar \o Head(sentences), maxLength)
  ELSE soFar

\* generateSummary(text, maxLength)
GenerateSummary ==
  /\ summary = None
  /\ summary' = Some(Summarize(Sentences(sumText), <<>>, sumMaxLength))
  /\ UNCHANGED <<sumText, sumMaxLength, offSummary>>

\* A call generateSummary(text, maxLength) begins.
SummaryInit ==
  /\ PagesIdle
  /\ ChunkIdle
  /\ PdfIdle
  /\ TimersIdle
  /\ ApiIdle
  /\ PassagesIdle
  /\ sumText \in SummaryTexts
  /\ sumMaxLength \in SummaryArgs
  /\ summary = None

SummaryNext == GenerateSummary

SummarySpec == SummaryInit /\ [][SummaryNext]_vars

\* ------------------------------------------------------------------ findRelevantPassages

\* The most chunks searched.
MaxPassages == 3

\* The queries asked: "", "ab", "abab", "ABAB", " abab", "abab  ab", "abab baba"
\* and "a.ab".
QueryPool ==
  { <<>>,
    <<"a", "b">>,
    <<"a", "b", "a", "b">>,
    <<"A", "B", "A", "B">>,
    <<" ", "a", "b", "a", "b">>,
    <<"a", "b", "a", "b", " ", " ", "a", "b">>,
    <<"a", "b", "a", "b", " ", "b", "a", "b", "a">>,
    <<"a", ".", "a", "b">> }

\* The chunks searched: "ab", "Abab", "baba abab", "abababab" and "a.ab".
PassagePool ==
  { <<"a", "b">>,
    <<"A", "b", "a", "b">>,
    <<"b", "a", "b", "a", " ", "a", "b", "a", "b">>,
    <<"a", "b", "a", "b", "a", "b", "a", "b">>,
    <<"a", ".", "a", "b">> }

PassageLists == UNION {[1..n -> PassagePool] : n \in 0..MaxPassages}

\* String.prototype.toLowerCase
LowerChar(c) == IF c = "A" THEN "a" ELSE IF c = "B" THEN "b" ELSE c
ToLowerCase(str) == [i \in DOMAIN str |-> LowerChar(str[i])]

\* String.prototype.split(/\s+/): the pieces between the runs of whitespace, with an
\* empty piece before a leading and behind a trailing run.
RECURSIVE SplitAcc(_, _)
SplitAcc(str, word) ==
  IF str = <<>> THEN <<word>>
  ELSE IF IsSpace(Head(str)) THEN <<word>> \o SplitAcc(TrimStart(str), <<>>)
  ELSE SplitAcc(Tail(str), Append(word, Head(str)))
Split(str) == SplitAcc(str, <<>>)

\* word.length > 3
IsLongWord(word) == Len(word) > 3

\* new RegExp(word, 'gi') matches at position p of str: the characters of the word
\* are the pattern, in which '.' stands for any character but a line break.
MatchesAt(word, str, p) ==
  /\ p + Len(word) - 1 <= Len(str)
  /\ \A k \in 1..Len(word) :
       IF word[k] = "." THEN str[p + k - 1] /= "\n" ELSE LowerChar(word[k]) = LowerChar(str[p + k - 1])

\* (chunkLower.match(regex) || []).length: the matches from p on, from left to right,
\* each search starting behind the match before it.
RECURSIVE MatchCount(_, _, _)
MatchCount(word, str, p) ==
  IF p + Len(word) - 1 > Len(str) THEN 0
  ELSE IF MatchesAt(word, str, p) THEN 1 + MatchCount(word, str, p + Len(word))
  ELSE MatchCount(word, str, p + 1)

\* The for loop over the query words: the sum of the matches of the long ones.
RECURSIVE MatchTotal(_, _)
MatchTotal(words, str) ==
  IF words = <<>> THEN 0
  ELSE (IF IsLongWord(Head(words)) THEN MatchCount(Head(words), str, 1) ELSE 0)
         + MatchTotal(Tail(words), str)

\* String.prototype.includes
Includes(str, word) ==
  \E p \in 1..(Len(str) - Len(word) + 1) : SubSeq(str, p, p + Len(word) - 1) = word

\* The score of a chunk: the matches, doubled if every long word is included.
Score(queryWords, chunk) ==
  LET chunkLower == ToLowerCase(chunk)
      score == MatchTotal(queryWords, chunkLower)
      containsAllWords ==
        \A k \in 1..Len(queryWords) :
          IsLongWord(queryWords[k]) => Includes(chunkLower, queryWords[k])
  IN IF containsAllWords THEN score * 2 ELSE score

\* .filter(item => item.score > 0)
IsRelevant(item) == item.score > 0

\* .sort((a, b) => b.score - a.score): a stable sort by falling score.
RECURSIVE SortByScore(_)
SortByScore(items) ==
  IF items = <<>> THEN <<>>
  ELSE LET rest == SortByScore(SubSeq(items, 1, Len(items) - 1))
           last == items[Len(items)]
           n == Cardinality({k \in 1..Len(rest) : rest[k].score >= last.score})
       IN SubSeq(rest, 1, n) \o <<last>> \o SubSeq(rest, n + 1, Len(rest))

\* findRelevantPassages(query, textChunks)
FindRelevantPassages ==
  /\ passages = None
  /\ LET queryWords == Split(ToLowerCase(query))
         items == [k \in 1..Len(textChunks) |->
                     [text |-> textChunks[k], score |-> Score(queryWords, textChunks[k])]]
     IN passages' = Some(SortByScore(SelectSeq(items, IsRelevant)))
  /\ UNCHANGED <<query, textChunks, offPassages>>

\* A call findRelevantPassages(query, textChunks) begins.
PassagesInit ==
  /\ PagesIdle
  /\ ChunkIdle
  /\ PdfIdle
  /\ TimersIdle
  /\ ApiIdle
  /\ SummaryIdle
  /\ query \in QueryPool
  /\ textChunks \in PassageLists
  /\ passages = None

PassagesNext == FindRelevantPassages

PassagesSpec == PassagesInit /\ [][PassagesNext]_vars

\* ------------------------------------------------------------------ claims: chunkText

\* C5: every call of chunkText returns. An iteration of its loop is a function of
\* startIndex alone (text and the arguments do not change), so a call that returns
\* never begins two iterations with the same startIndex.
C5_Terminates ==
  \A j, k \in 1..Len(spans) : j /= k => spans[j][1] /= spans[k][1]

\* C6: every chunk produced is a non-empty contiguous substring of text of at most
\* maxChunkSize characters, and for an empty, null or undefined text the call
\* returns the empty array.
C6_WellFormedChunks ==
  /\ \A k \in 1..Len(chunks) :
       /\ chunks[k] /= <<>>
       /\ Len(chunks[k]) <= maxChunkSize
       /\ \E a \in 1..Len(text.str) :
            chunks[k] = SubSeq(text.str, a, a + Len(chunks[k]) - 1)
  /\ (text.isNull \/ text.str = <<>>) /\ chunkPc /= "start" => chunkPc = "done" /\ chunks = <<>>

\* C7: the first chunk starts at index 0, each later chunk starts exactly
\* chunkOverlap characters before the end of the chunk preceding it, and the
\* chunks of a call that has returned contain every character of text.
C7_From(k) == Min(Max(0, Min(spans[k][1], Len(text.str))), Max(0, Min(spans[k][2], Len(text.str))))
C7_To(k) == Max(Max(0, Min(spans[k][1], Len(text.str))), Max(0, Min(spans[k][2], Len(text.str))))

C7_OverlappingCover ==
  /\ \A k \in 1..Len(spans) :
       /\ chunks[k] = SubSeq(text.str, C7_From(k) + 1, C7_To(k))
       /\ C7_From(k) = IF k = 1 THEN 0 ELSE C7_To(k - 1) - chunkOverlap
  /\ chunkPc = "done" /\ ~text.isNull =>
       \A i \in 1..Len(text.str) : \E k \in 1..Len(spans) : C7_From(k) < i /\ i <= C7_To(k)

\* ------------------------------------------------------------------ claims: extractPdfText

C10_Message == "Failed to extract text from PDF"

\* C10 as stated: a call in which any step failed (reading the bytes, loading the
\* PDF, reading its metadata, getting a page or its text content) is rejected with
\* exactly the message 'Failed to extract text from PDF' and yields no result.
C10_AnyFailureRejects ==
  /\ pdfFailed /= {} => pdfPc /= "resolved" /\ pdfResult = None
  /\ pdfPc = "rejected" => pdfError = Some(C10_Message)

\* C10 as amended: a failure of any step other than reading the metadata rejects
\* the call at once with exactly that message and no result; a rejected metadata
\* promise is replaced by an empty object and the call goes on; the call resolves
\* exactly when every other step succeeded, with one entry per page.
C10_Fatal == pdfFailed \ {"getMetadata"}

C10_RejectsUnlessMetadata ==
  /\ C10_Fatal /= {} <=> pdfPc = "rejected"
  /\ pdfPc = "rejected" <=> pdfError /= None
  /\ pdfPc = "rejected" => pdfError = Some(C10_Message) /\ pdfResult = None
  /\ pdfPc = "resolved" <=> pdfResult /= None
  /\ pdfPc = "resolved" =>
       /\ Len(pdfResult[1].pages) = numPages
       /\ pdfResult[1].numPages = numPages
       /\ "getMetadata" \in pdfFailed => pdfResult[1].metadata = EmptyObject

\* Reading the metadata failed, a page was read, and the next page's text content
\* failed: the call is rejected and the page already read is not returned.
C10_Witness ==
  /\ pdfPc = "rejected"
  /\ pdfFailed = {"getMetadata", "getTextContent"}
  /\ Len(pages) = 1

\* ------------------------------------------------------------------ claims: timers

\* C13 as stated: no timer scheduled by a handler or an effect (chat reply, upload
\* completion, document-viewer loading, flashcard navigation, copied indicator) is
\* ever cancelled, so that each of them runs its callback.
C13_NoTimerCancelled ==
  \A id \in 1..Len(timerLog) : timerLog[id].status /= "cleared"

\* C13 as amended: only the loading timer of the document viewer is ever cancelled,
\* and only by the cleanup of the viewer's effect (the document prop changes or the
\* viewer is unmounted while the timer is pending); every other timer runs its
\* callback, whatever happens between scheduling and expiry, and every loading
\* timer of the viewer either runs or is cancelled.
C13_OnlyViewerCleared ==
  \A id \in 1..Len(timerLog) :
    /\ timerLog[id].status = "cleared" => timerLog[id].kind = "viewer"
    /\ timerLog[id].status = "pending" <=> id \in pending

C13_Step ==
  \A id \in 1..Len(timerLog) :
    timerLog[id].status = "pending" /\ timerLog'[id].status = "cleared" =>
      /\ timerLog[id].kind = "viewer"
      /\ viewer.mounted
      /\ viewer.timer = Some(id)
      /\ ~viewer'.mounted \/ viewer'.document /= viewer.document

C13_TimersRunUnlessViewer ==
  /\ []C13_OnlyViewerCleared
  /\ [][C13_Step]_vars
  /\ \A id \in 1..MaxTimers :
       /\ (Len(timerLog) >= id /\ timerLog[id].kind /= "viewer")
            ~> (Len(timerLog) >= id /\ timerLog[id].status = "ran")
       /\ (Len(timerLog) >= id)
            ~> (Len(timerLog) >= id /\ timerLog[id].status \in {"ran", "cleared"})

\* The viewer's loading timer was cancelled by a change of document, while the
\* reply timer scheduled after it has run.
C13_Witness ==
  /\ Len(timerLog) = 2
  /\ timerLog[1] = [kind |-> "viewer", status |-> "cleared"]
  /\ timerLog[2] = [kind |-> "reply", status |-> "ran"]
  /\ viewer.mounted /\ viewer.document = None

\* ------------------------------------------------------------------ claims: services

\* A request has just been sent / a call has just settled in this step.
ApiSent == Len(inflight') > Len(inflight)
ApiSettled == Len(inflight') < Len(inflight)

\* Every call sends exactly one request: a step that sends one sends no other, and
\* a step that settles a call sends none (no retry).
C11_OneRequest ==
  /\ ApiSent => Len(inflight') = Len(inflight) + 1 /\ sent' = sent + 1
  /\ ApiSettled => Len(inflight') = Len(inflight) - 1 /\ sent' = sent
  /\ sent' /= sent => ApiSent

\* C11 as stated: every documentService and chatService operation sends exactly
\* one HTTP request per call; on success it returns the response data, on failure it
\* throws the error it caught again, with no retry and no fallback value.
C11_StepAsStated ==
  /\ C11_OneRequest
  /\ ApiSettled /\ settled'[1].request.op \in ServiceOps =>
       LET r == settled'[1] IN
       r.result = IF r.response.ok
                  THEN [kind |-> "returned", value |-> r.response.data[1]]
                  ELSE [kind |-> "thrown", value |-> r.response]

C11_ReturnsData == [][C11_StepAsStated]_vars

\* C11 as amended: the same, except that exportChatTranscript, on success, hands the
\* response data to a download link and returns true.
C11_Step ==
  /\ C11_OneRequest
  /\ ApiSettled /\ settled'[1].request.op \in ServiceOps =>
       LET r == settled'[1] IN
       r.result = IF ~r.response.ok THEN [kind |-> "thrown", value |-> r.response]
                  ELSE IF r.request.op = "exportChatTranscript"
                  THEN [kind |-> "returned", value |-> [boolean |-> TRUE]]
                  ELSE [kind |-> "returned", value |-> r.response.data[1]]

C11_ReturnsDataOrTrue == [][C11_Step]_vars

\* Two calls have settled: the second, exportChatTranscript, returned true.
C11_Witness ==
  /\ sent = 2
  /\ inflight = <<>>
  /\ settled /= None
  /\ settled[1].request.op = "exportChatTranscript"
  /\ settled[1].result = [kind |-> "returned", value |-> [boolean |-> TRUE]]

\* ------------------------------------------------------------------ claims: api instance

\* C17: when a request through the api instance fails with status 401, the token is
\* gone from localStorage once the response interceptor has run, and the error is
\* rejected to the caller (a service operation throws that very error); when it fails
\* with another status or without a response, the interceptor leaves the token as it
\* is and rejects the error likewise.
C17_Step ==
  ApiSettled /\ ~settled'[1].response.ok =>
    LET r == settled'[1] IN
    /\ r.stored = IF r.response.status = Some(401) THEN None ELSE token
    /\ r.request.op \in ServiceOps =>
         /\ r.result = [kind |-> "thrown", value |-> r.response]
         /\ token' = r.stored
    /\ r.request.op \in {"login", "register"} => token' = r.stored

C17_UnauthorizedDropsToken == [][C17_Step]_vars

\* A service call sent with the stored token was answered 401: the token is gone
\* and the call threw the error.
C17_Witness ==
  /\ settled /= None
  /\ settled[1].request.op \in ServiceOps
  /\ settled[1].request.authorization = Some(Bearer \o StoredToken)
  /\ settled[1].response.status = Some(401)
  /\ settled[1].result.kind = "thrown"
  /\ token = None

\* C18: every request sent through the api instance carries 'Authorization: Bearer
\* <token>' with the token localStorage holds when the request is issued, and no
\* Authorization header when it holds none; so a request issued after a logout or a
\* 401 response does not carry the removed token.
C18_Step ==
  ApiSent =>
    LET r == inflight'[Len(inflight')] IN
    /\ token /= None => r.authorization = Some(<<"B", "e", "a", "r", "e", "r", " ">> \o token[1])
    /\ token = None => r.authorization = None
    /\ token' = token

C18_BearerOfStoredToken == [][C18_Step]_vars

\* A request sent with the stored token was answered 401, and the request sent
\* after it carries no Authorization header.
C18_Witness ==
  /\ settled /= None
  /\ settled[1].request.authorization = Some(Bearer \o StoredToken)
  /\ settled[1].response.status = Some(401)
  /\ Len(inflight) = 1
  /\ inflight[1].authorization = None

\* ------------------------------------------------------------------ claims: AuthProvider

\* C14: login and register clear error before the request is sent and never
\* reject; when the request fails they resolve to false, set error to the server's
\* message or else to the fallback of the operation, and leave user and the stored
\* token as they are; when it succeeds they resolve to true, store the returned
\* token, set user and leave error as it is.
C14_Step ==
  /\ ApiSent /\ inflight'[Len(inflight')].op \in {"login", "register"} => error' = None
  /\ ApiSettled /\ settled'[1].request.op \in {"login", "register"} =>
       LET r == settled'[1] IN
       /\ r.result.kind = "returned"
       /\ IF r.response.ok
          THEN /\ r.result.value = [boolean |-> TRUE]
               /\ token' = Some(r.response.data[1].token)
               /\ user' = Some(r.response.data[1].user)
               /\ error' = error
          ELSE /\ r.result.value = [boolean |-> FALSE]
               /\ error' = Some(IF r.response.status /= None /\ r.response.data /= None
                                THEN r.response.data[1]
                                ELSE IF r.request.op = "login"
                                THEN "Login failed. Please check your credentials."
                                ELSE "Registration failed. Please try again.")
               /\ user' = user
               /\ token' = token

C14_LoginNeverRejects == [][C14_Step]_vars

\* C19: logout, in any state, leaves no token in localStorage and user null, so that
\* isAuthenticated is false, and changes neither error nor isLoading.
C19_Step ==
  Logout =>
    /\ token' = None
    /\ user' = None
    /\ ~IsAuthenticated'
    /\ error' = error
    /\ isLoading' = isLoading

C19_LogoutClears == [][C19_Step]_vars

\* A failed login left its error, the login after it succeeded, and then logout
\* ran: token and user are gone, the error is still there.
C19_Witness ==
  /\ settled /= None
  /\ settled[1].request.op = "login"
  /\ settled[1].response.ok
  /\ error /= None
  /\ token = None
  /\ user = None
  /\ isLoading = FALSE

\* C20: with auth disabled, startup sets user to the Demo User and isLoading to
\* false whatever localStorage holds, and sends no request; with auth enabled and no
\* token it sets isLoading to false, leaves user null and sends no request; with a
\* token it requests the profile, and the answer sets isLoading to false, and sets
\* user on success or removes the token on failure, leaving user as it was (null
\* when the profile request was the only one sent); isLoading is false in the end.
C20_Step ==
  /\ Startup =>
       IF ~isAuthEnabled
       THEN /\ user' = Some([id |-> "1", name |-> "Demo User",
                             email |-> "demo@example.com", role |-> "user"])
            /\ isLoading' = FALSE
            /\ token' = token /\ inflight' = inflight /\ sent' = sent
       ELSE IF token = None
       THEN /\ isLoading' = FALSE
            /\ user' = None
            /\ token' = token /\ inflight' = inflight /\ sent' = sent
       ELSE /\ inflight' = <<[op |-> "profile", authorization |-> Some(Bearer \o token[1])]>>
            /\ isLoading' = TRUE
            /\ user' = None
  /\ ApiSettled /\ settled'[1].request.op = "profile" =>
       LET r == settled'[1] IN
       /\ isLoading' = FALSE
       /\ IF r.response.ok
          THEN user' = r.response.data /\ token' = token
          ELSE /\ token' = None
               /\ user' = user
               /\ sent = 1 => user' = None
  /\ isLoading' /= isLoading => isLoading' = FALSE

C20_StartupEnds == [][C20_Step]_vars /\ <>[](isLoading = FALSE)

\* Auth is enabled, the profile request of the stored token failed: the token is
\* removed, user is null and isLoading is false.
C20_Witness ==
  /\ isAuthEnabled
  /\ settled /= None
  /\ settled[1].request.op = "profile"
  /\ ~settled[1].response.ok
  /\ settled[1].response.status = Some(500)
  /\ token = None
  /\ user = None
  /\ isLoading = FALSE

\* ------------------------------------------------------------------ claims: generateSummary

\* The first k of the sentences, one after the other.
RECURSIVE C15_Prefix(_, _)
C15_Prefix(sentences, k) ==
  IF k = 0 THEN <<>> ELSE C15_Prefix(sentences, k - 1) \o sentences[k]

C15_HasTerminator == \E i \in 1..Len(sumText) : sumText[i] \in {".", "!", "?"}

\* C15: the summary has at most maxLength characters and is the concatenation, in
\* their order, of the longest prefix of the text's sentences whose total length
\* does not exceed maxLength: no sentence behind the first one that does not fit is
\* added; it is empty when the first sentence alone exceeds maxLength and when the
\* text has no sentence terminator.
C15_LongestPrefix ==
  summary /= None =>
    LET sentences == Sentences(sumText)
        fits == {k \in 0..Len(sentences) : Len(C15_Prefix(sentences, k)) <= sumMaxLength}
        longest == CHOOSE k \in fits : \A j \in fits : j <= k
    IN /\ Len(summary[1]) <= sumMaxLength
       /\ summary[1] = C15_Prefix(sentences, longest)
       /\ \E from \in 1..(Len(sumText) + 1) :
            summary[1] = SubSeq(sumText, from, from + Len(summary[1]) - 1)
       /\ \A k \in 1..Len(sentences) :
            /\ sentences[k][1] \notin {".", "!", "?"}
            /\ sentences[k][Len(sentences[k])] \in {".", "!", "?"}
       /\ sentences /= <<>> /\ Len(sentences[1]) > sumMaxLength => summary[1] = <<>>
       /\ ~C15_HasTerminator => summary[1] = <<>>

\* The second sentence does not fit, and the third, which would, is not added.
C15_Witness ==
  /\ sumText = <<"a", ".", "a", "a", "!", "a", ".">>
  /\ sumMaxLength = 4
  /\ summary = Some(<<"a", ".">>)

\* ------------------------------------------------------------------ claims: findRelevantPassages

\* The occurrences of a word in a string, counted from left to right, each behind the
\* one before it.
RECURSIVE C16_Occurrences(_, _, _)
C16_Occurrences(word, str, p) ==
  IF p + Len(word) - 1 > Len(str) THEN 0
  ELSE IF SubSeq(str, p, p + Len(word) - 1) = word
  THEN 1 + C16_Occurrences(word, str, p + Len(word))
  ELSE C16_Occurrences(word, str, p + 1)

C16_Words == SelectSeq(Split(ToLowerCase(query)), IsLongWord)

RECURSIVE C16_Total(_, _)
C16_Total(words, str) ==
  IF words = <<>> THEN 0
  ELSE C16_Occurrences(Head(words), str, 1) + C16_Total(Tail(words), str)

C16_Score(chunk) ==
  LET str == ToLowerCase(chunk)
      total == C16_Total(C16_Words, str)
  IN IF \A k \in 1..Len(C16_Words) : C16_Occurrences(C16_Words[k], str, 1) > 0
     THEN 2 * total
     ELSE total

C16_Count(seq, x) == Cardinality({k \in 1..Len(seq) : seq[k] = x})

\* C16: the call returns exactly the chunks whose score is greater than 0, each with
\* its score, in the order of non-increasing score, the score of a chunk being the
\* number of occurrences in it of the query words longer than 3 characters, doubled
\* when it contains every such word; so a query without such a word returns the empty
\* list.
C16_RelevantByScore ==
  passages /= None =>
    LET returned == [k \in 1..Len(passages[1]) |-> passages[1][k].text] IN
    /\ \A chunk \in PassagePool :
         C16_Count(returned, chunk) =
           IF C16_Score(chunk) > 0 THEN C16_Count(textChunks, chunk) ELSE 0
    /\ \A k \in 1..Len(passages[1]) :
         /\ passages[1][k].score = C16_Score(passages[1][k].text)
         /\ k > 1 => passages[1][k - 1].score >= passages[1][k].score
    /\ C16_Words = <<>> => passages[1] = <<>>

\* ------------------------------------------------------------------ claims: chat

\* C2: no two entries of messages (the greeting with id 1 included) have the same id.
C2_UniqueMessageIds ==
  \A i, j \in 1..Len(messages) : i /= j => messages[i].id /= messages[j].id

\* C3: every step that changes messages, schedules or runs a reply timer, or selects
\* a document adds exactly one message at the end of the sequence and leaves the
\* messages already in it as they were, in their order.
C3_Step ==
  (messages' /= messages \/ replyTimers' /= replyTimers \/ activeDocument' /= activeDocument)
    => /\ Len(messages') = Len(messages) + 1
       /\ SubSeq(messages', 1, Len(messages)) = messages

C3_AppendOnly == [][C3_Step]_vars

\* A user message, its reply and a focus message follow the greeting.
C3_Witness ==
  /\ Len(messages) = 4
  /\ messages[1].text.kind = "greeting"
  /\ \E i, j, k \in 2..4 :
       /\ messages[i].text.kind = "user"
       /\ messages[j].text.kind = "analyzing"
       /\ messages[k].text.kind = "focus"

\* C4: every accepted (non-blank) user message is appended at once together with
\* one reply timer; a timer that runs appends exactly one bot message, behind the
\* user message it answers; the timer replies never outnumber the user messages;
\* and every user message is eventually followed by its reply.
C4_Users(n) == Cardinality({i \in 1..n : messages[i].sender = "user"})
C4_Replies(n) == Cardinality({i \in 1..n : messages[i].text.kind = "analyzing"})

C4_Counts ==
  /\ C4_Replies(Len(messages)) + Len(replyTimers) = C4_Users(Len(messages))
  /\ \A n \in 0..Len(messages) : C4_Replies(n) <= C4_Users(n)
  /\ \A i \in 1..Len(messages) :
       /\ messages[i].sender = "user" => Trim(messages[i].text.about) /= <<>>
       /\ messages[i].text.kind = "analyzing" => messages[i].sender = "bot"

C4_Step ==
  /\ Len(replyTimers') > Len(replyTimers) =>
       /\ Len(replyTimers') = Len(replyTimers) + 1
       /\ Len(messages') = Len(messages) + 1
       /\ messages'[Len(messages')].sender = "user"
  /\ Len(replyTimers') < Len(replyTimers) =>
       /\ Len(replyTimers') = Len(replyTimers) - 1
       /\ now >= Head(replyTimers).due
       /\ Len(messages') = Len(messages) + 1
       /\ messages'[Len(messages')].sender = "bot"
       /\ messages'[Len(messages')].text.kind = "analyzing"

C1_NoLostUpload == (uploads = <<>>) => (Len(documents) = accepted)

\* C8: no two records of the documents list have the same id.
C8_UniqueDocumentIds ==
  \A i, j \in 1..Len(documents) : i /= j => documents[i].id /= documents[j].id

\* C9: every record of the documents list describes an allowed-type file, with a page
\* count (in 5..24) exactly when it is a PDF; and the completion of a batch, which
\* happens no earlier than the delay after its handleFiles call, leaves as the last
\* entries of the list exactly one record per allowed file of the batch, in the
\* files' order, with the file's name, type and size.
C9_IsPdfOrDocx(file) == file.type = PDF \/ file.type = DOCX

C9_Records ==
  \A i \in 1..Len(documents) :
    LET d == documents[i] IN
    /\ \E f \in FilePool :
         C9_IsPdfOrDocx(f) /\ d.name = f.name /\ d.type = f.type /\ d.size = f.size
    /\ (d.pages /= None) <=> (d.type = PDF)
    /\ d.pages /= None => d.pages[1] \in 5..24

C9_Completion ==
  documents' /= documents =>
    /\ uploads /= <<>>
    /\ uploads' = Tail(uploads)
    /\ LET b == Head(uploads)
           allowed == SelectSeq(b.files, C9_IsPdfOrDocx)
           n == Len(allowed)
           base == Len(documents') - n
       IN /\ n >= 1
          /\ now >= b.due
          /\ base = Len(b.documents)
          /\ \A k \in 1..n :
               /\ documents'[base + k].name = allowed[k].name
               /\ documents'[base + k].type = allowed[k].type
               /\ documents'[base + k].size = allowed[k].size

C12_NoneAllowed(files) == \A i \in 1..Len(files) : files[i].type \notin {PDF, DOCX}

C12_Invalid ==
  {files \in UNION {[1..n -> {f \in FilePool : f.type \notin {PDF, DOCX}}] : n \in 1..MaxFiles} :
     files \in FileLists}

C12_Step ==
  /\ \A files \in C12_Invalid :
       HandleFiles(files) =>
         /\ uploadError' = Some("Only PDF and Word documents are supported.")
         /\ isUploading' = FALSE
         /\ uploads' = uploads
         /\ documents' = documents
  /\ Len(uploads') > Len(uploads) =>
       /\ ~C12_NoneAllowed(uploads'[Len(uploads')].files)
       /\ uploadError' = None
  /\ uploadError' /= uploadError =>
       /\ now' = now
       /\ documents' = documents
       /\ Len(uploads') >= Len(uploads)

C12_InvalidBatch == [][C12_Step]_vars

\* A batch without an allowed file was handed over while an earlier batch was still
\* pending: the alert is shown, isUploading is false and the timer is still pending.
C12_Witness ==
  /\ uploadError = Some("Only PDF and Word documents are supported.")
  /\ isUploading = FALSE
  /\ uploads /= <<>>
  /\ documents = <<>>

C21_ChatHasDocuments == route = "/chat" => Len(documents) > 0

C21_ButtonDisabled == StartChattingDisabled <=> documents = <<>>

C21_Step ==
  /\ (Len(documents) = 0 /\ SidebarNavigate("/chat")) =>
       /\ route' = "/documents"
       /\ redirected'
       /\ messages' = <<>>
  /\ (Len(documents) > 0 /\ SidebarNavigate("/chat")) =>
       /\ route' = "/chat"
       /\ ~redirected'
  /\ HomeStartChatting => Len(documents) > 0 /\ route' = "/chat"
  /\ (route /= "/chat" /\ route' = "/chat") => Len(documents) > 0
  /\ (route = "/chat" /\ documents' /= documents) => route' = ChatEffect(documents', "/chat")

C21_NoChatWithoutDocuments ==
  /\ [](C21_ChatHasDocuments /\ C21_ButtonDisabled)
  /\ [][C21_Step]_vars

\* The Chat page was opened without documents while an upload was pending: the
\* path rendered is /documents again, on a newly mounted Documents page.
C21_Witness ==
  /\ redirected
  /\ route = "/documents"
  /\ Len(documents) = 0
  /\ uploads /= <<>>
  /\ ~uploads[1].mounted

\* C22: activeDocument is always null or one of the records of the documents list.
C22_ActiveIsListed == activeDocument = None \/ activeDocument[1] \in Listed

====
